---- MODULE Spec2Model ----
(***************************************************************************)
(* Model of models.py: the NearEarthObject and CloseApproach entities,     *)
(* their constructors, derived properties and textual representations,    *)
(* and the linking step that NEODatabase (database.py) performs on them.   *)
(*                                                                         *)
(* A Python str is a sequence of one-character strings, so that upper(),   *)
(* float(), strptime() and the f-strings are computed character by         *)
(* character.  A Python float is a record: NaN, an infinity, or the exact  *)
(* decimal (-1)^neg * m / 10^s with m not divisible by 10 unless s = 0.    *)
(* Objects live in heaps indexed by identity: neos, cas and lists.         *)
(***************************************************************************)
EXTENDS Integers, Sequences, FiniteSets, TLC

VARIABLES
    neos,      \* heap of NearEarthObject instances, by identity 1..Len(neos)
    cas,       \* heap of CloseApproach instances, by identity 1..Len(cas)
    lists,     \* heap of Python list objects; a NEO's approaches refers to one
    caArgs,    \* history: the designation argument each CloseApproach was built with
    call,      \* the operation performed last and its arguments
    result,    \* what that operation gave its caller: a value or a raised exception
    badField   \* history: the field whose parser raised in that operation, or "none"

vars == <<neos, cas, lists, caArgs, call, result, badField>>

-----------------------------------------------------------------------------
(* Bounds of the model *)

MaxNeos == 2
MaxCas == 2
MaxSoloNeos == 1

-----------------------------------------------------------------------------
(* Python str *)

\* None, where a str may stand instead
None == <<"None">>

\* None, where a reference to a NearEarthObject may stand instead
NoNeo == 0

DigitChars == {"0", "1", "2", "3", "4", "5", "6", "7", "8", "9"}

LowerChars == 
    <<"a", "b", "c", "d", "e", "f", "g", "h", "i", "j", "k", "l", "m",
     "n", "o", "p", "q", "r", "s", "t", "u", "v", "w", "x", "y", "z">>
UpperChars == 
    <<"A", "B", "C", "D", "E", "F", "G", "H", "I", "J", "K", "L", "M",
     "N", "O", "P", "Q", "R", "S", "T", "U", "V", "W", "X", "Y", "Z">>

\* str.upper() on one character
UpperChar(c) ==
    IF \E i \in 1..26 : LowerChars[i] = c
    THEN UpperChars[CHOOSE i \in 1..26 : LowerChars[i] = c]
    ELSE c

\* str.upper()
Upper(s) == [i \in 1..Len(s) |-> UpperChar(s[i])]

\* str.strip() of the blank
RECURSIVE LStrip(_)
LStrip(s) == IF s # <<>> /\ Head(s) = " " THEN LStrip(Tail(s)) ELSE s

RECURSIVE RStrip(_)
RStrip(s) ==
    IF s # <<>> /\ s[Len(s)] = " " THEN RStrip(SubSeq(s, 1, Len(s) - 1)) ELSE s

Strip(s) == RStrip(LStrip(s))

\* repr() of a str without quotes or backslashes in it
ReprStr(s) == <<"'">> \o s \o <<"'">>

DigitVal(c) ==
    CASE c = "0" -> 0 [] c = "1" -> 1 [] c = "2" -> 2 [] c = "3" -> 3
      [] c = "4" -> 4 [] c = "5" -> 5 [] c = "6" -> 6 [] c = "7" -> 7
      [] c = "8" -> 8 [] c = "9" -> 9

DigitChar(d) ==
    CASE d = 0 -> "0" [] d = 1 -> "1" [] d = 2 -> "2" [] d = 3 -> "3"
      [] d = 4 -> "4" [] d = 5 -> "5" [] d = 6 -> "6" [] d = 7 -> "7"
      [] d = 8 -> "8" [] d = 9 -> "9"

IsDigits(s) == \A i \in 1..Len(s) : s[i] \in DigitChars

\* int() of a string of decimal digits (0 for the empty string)
RECURSIVE DigitsVal(_)
DigitsVal(s) ==
    IF s = <<>> THEN 0
    ELSE 10 * DigitsVal(SubSeq(s, 1, Len(s) - 1)) + DigitVal(s[Len(s)])

\* str() of a natural number
RECURSIVE NatStr(_)
NatStr(n) ==
    IF n < 10 THEN <<DigitChar(n)>> ELSE NatStr(n \div 10) \o <<DigitChar(n % 10)>>

\* a natural number in at least w digits, zero-padded on the left ("%02d")
RECURSIVE ZeroPad(_, _)
ZeroPad(s, w) == IF Len(s) >= w THEN s ELSE ZeroPad(<<"0">> \o s, w)

RECURSIVE Pow10(_)
Pow10(n) == IF n = 0 THEN 1 ELSE 10 * Pow10(n - 1)

-----------------------------------------------------------------------------
(* Python float *)

NaN == [k |-> "nan", neg |-> FALSE, m |-> 0, s |-> 0]
Inf(neg) == [k |-> "inf", neg |-> neg, m |-> 0, s |-> 0]

\* the decimal (-1)^neg * m / 10^s, trailing zeros of the fraction dropped
RECURSIVE Fin(_, _, _)
Fin(neg, m, s) ==
    IF s > 0 /\ m % 10 = 0 THEN Fin(neg, m \div 10, s - 1)
    ELSE [k |-> "fin", neg |-> neg, m |-> m, s |-> s]

\* math.isnan
IsNaN(x) == x.k = "nan"

\* an operation's outcome: a returned value or a raised exception
Returned(v) == [ok |-> TRUE, val |-> v]
Raised(type, text, raw) ==
    [ok |-> FALSE, exc |-> [type |-> type, text |-> text, raw |-> raw]]

\* index of the first "." of s, or 0
FirstDot(s) ==
    IF \E i \in 1..Len(s) : s[i] = "."
    THEN CHOOSE i \in 1..Len(s) : s[i] = "." /\ \A j \in 1..(i - 1) : s[j] # "."
    ELSE 0

\* float(str): blanks stripped, an optional sign, then nan, inf or infinity in
\* any case, or decimal digits with at most one point and at least one digit.
\* (Exponents and digit-group underscores are outside the model's alphabet.)
PyFloat(str) ==
    LET t == Strip(str)
        signed == t # <<>> /\ Head(t) \in {"+", "-"}
        neg == t # <<>> /\ Head(t) = "-"
        body == IF signed THEN Tail(t) ELSE t
        dot == FirstDot(body)
        ip == IF dot = 0 THEN body ELSE SubSeq(body, 1, dot - 1)
        fp == IF dot = 0 THEN <<>> ELSE SubSeq(body, dot + 1, Len(body))
    IN  IF Upper(body) = <<"N", "A", "N">> THEN Returned(NaN)
        ELSE IF Upper(body) \in {<<"I", "N", "F">>,
                                 <<"I", "N", "F", "I", "N", "I", "T", "Y">>}
             THEN Returned(Inf(neg))
        ELSE IF IsDigits(ip) /\ IsDigits(fp) /\ Len(ip) + Len(fp) > 0
             THEN Returned(Fin(neg, DigitsVal(ip \o fp), Len(fp)))
        ELSE Raised("ValueError", "could not convert string to float", ReprStr(str))

\* str(float) and f"{x}": the shortest decimal that reads back as x, which for
\* the short decimals of the model (1e-4 <= |x| < 1e16, or zero) is x itself
FloatStr(x) ==
    LET sign == IF x.neg THEN <<"-">> ELSE <<>>
    IN  IF x.k = "nan" THEN <<"n", "a", "n">>
        ELSE IF x.k = "inf" THEN sign \o <<"i", "n", "f">>
        ELSE sign \o NatStr(x.m \div Pow10(x.s)) \o <<".">>
             \o (IF x.s = 0 THEN <<"0">> ELSE ZeroPad(NatStr(x.m % Pow10(x.s)), x.s))

\* f"{x:.pf}" for p > 0: x rounded to p decimals.  A decimal tie is decided by
\* the binary value of the double; the model rounds it to even, which is what
\* Python does for the ties a double holds exactly (0.125, 0.5).
FloatFixed(x, p) ==
    LET sign == IF x.neg THEN <<"-">> ELSE <<>>
        cut == Pow10(IF x.s > p THEN x.s - p ELSE 0)
        q == x.m \div cut
        r == x.m % cut
        up == 2 * r > cut \/ (2 * r = cut /\ q % 2 = 1)
        scaled == IF x.s > p THEN (IF up THEN q + 1 ELSE q) ELSE x.m * Pow10(p - x.s)
    IN  IF x.k = "nan" THEN <<"n", "a", "n">>
        ELSE IF x.k = "inf" THEN sign \o <<"i", "n", "f">>
        ELSE sign \o NatStr(scaled \div Pow10(p)) \o <<".">>
             \o ZeroPad(NatStr(scaled % Pow10(p)), p)

\* repr(bool)
ReprBool(b) == IF b THEN <<"T", "r", "u", "e">> ELSE <<"F", "a", "l", "s", "e">>

\* repr(None)
ReprNone == <<"N", "o", "n", "e">>

-----------------------------------------------------------------------------
(* helpers.py: cd_to_datetime and datetime_to_str *)

MonthNames ==
    << <<"J", "A", "N">>, <<"F", "E", "B">>, <<"M", "A", "R">>, <<"A", "P", "R">>,
       <<"M", "A", "Y">>, <<"J", "U", "N">>, <<"J", "U", "L">>, <<"A", "U", "G">>,
       <<"S", "E", "P">>, <<"O", "C", "T">>, <<"N", "O", "V">>, <<"D", "E", "C">> >>

MonthOf(abbr) ==
    IF \E i \in 1..12 : MonthNames[i] = Upper(abbr)
    THEN CHOOSE i \in 1..12 : MonthNames[i] = Upper(abbr)
    ELSE 0

DaysIn(y, mo) ==
    IF mo \in {4, 6, 9, 11} THEN 30
    ELSE IF mo = 2
         THEN (IF y % 4 = 0 /\ (y % 100 # 0 \/ y % 400 = 0) THEN 29 ELSE 28)
    ELSE 31

\* cd_to_datetime: the compact calendar date "YYYY-Mon-DD hh:mm" to a naive
\* date-time; the parser rejects anything else
cd_to_datetime(str) ==
    LET y == DigitsVal(SubSeq(str, 1, 4))
        mo == MonthOf(SubSeq(str, 6, 8))
        d == DigitsVal(SubSeq(str, 10, 11))
        h == DigitsVal(SubSeq(str, 13, 14))
        mi == DigitsVal(SubSeq(str, 16, 17))
        shaped == /\ Len(str) = 17
                  /\ str[5] = "-" /\ str[9] = "-" /\ str[12] = " " /\ str[15] = ":"
                  /\ IsDigits(SubSeq(str, 1, 4)) /\ IsDigits(SubSeq(str, 10, 11))
                  /\ IsDigits(SubSeq(str, 13, 14)) /\ IsDigits(SubSeq(str, 16, 17))
    IN  IF shaped /\ y >= 1 /\ mo # 0 /\ d >= 1 /\ d <= DaysIn(y, mo) /\ h <= 23 /\ mi <= 59
        THEN Returned([year |-> y, month |-> mo, day |-> d, hour |-> h,
                       minute |-> mi, second |-> 0])
        ELSE Raised("InvalidTimestamp", "time data does not match format", ReprStr(str))

\* datetime_to_str: "YYYY-MM-DD hh:mm", without the seconds
datetime_to_str(dt) ==
    ZeroPad(NatStr(dt.year), 4) \o <<"-">> \o ZeroPad(NatStr(dt.month), 2) \o <<"-">>
    \o ZeroPad(NatStr(dt.day), 2) \o <<" ">> \o ZeroPad(NatStr(dt.hour), 2) \o <<":">>
    \o ZeroPad(NatStr(dt.minute), 2)

-----------------------------------------------------------------------------
(* The literal text of the f-strings *)

TxtHasDiameter ==
    <<" ", "h", "a", "s", " ", "a", " ", "d", "i", "a", "m", "e", "t", "e",
      "r", " ", "o", "f", " ">>

TxtHazardous ==
    <<" ", "k", "m", " ", "a", "n", "d", " ", "i", "s", " ", "p", "o", "t",
      "e", "n", "t", "i", "a", "l", "l", "y", " ", "h", "a", "z", "a", "r",
      "d", "o", "u", "s", ".">>

TxtNotHazardous ==
    <<" ", "k", "m", " ", "a", "n", "d", " ", "i", "s", " ", "n", "o", "t",
      " ", "p", "o", "t", "e", "n", "t", "i", "a", "l", "l", "y", " ", "h",
      "a", "z", "a", "r", "d", "o", "u", "s", ".">>

TxtNeoOpen ==
    <<"N", "e", "a", "r", "E", "a", "r", "t", "h", "O", "b", "j", "e", "c",
      "t", "(", "d", "e", "s", "i", "g", "n", "a", "t", "i", "o", "n", "=">>

TxtName ==
    <<",", " ", "n", "a", "m", "e", "=">>

TxtDiameter ==
    <<",", " ", "d", "i", "a", "m", "e", "t", "e", "r", "=">>

TxtHazardousEq ==
    <<",", " ", "h", "a", "z", "a", "r", "d", "o", "u", "s", "=">>

TxtOn ==
    <<"O", "n", " ">>

TxtApproaches ==
    <<" ", "a", "p", "p", "r", "o", "a", "c", "h", "e", "s", " ", "E", "a",
      "r", "t", "h", " ", "a", "t", " ", "a", " ", "d", "i", "s", "t", "a",
      "n", "c", "e", " ", "o", "f", " ">>

TxtVelocity ==
    <<" ", "a", "u", " ", "a", "n", "d", " ", "a", " ", "v", "e", "l", "o",
      "c", "i", "t", "y", " ", "o", "f", " ">>

TxtKms ==
    <<" ", "k", "m", "/", "s", ".">>

TxtCaOpen ==
    <<"C", "l", "o", "s", "e", "A", "p", "p", "r", "o", "a", "c", "h", "(",
      "t", "i", "m", "e", "=">>

TxtDistanceEq ==
    <<",", " ", "d", "i", "s", "t", "a", "n", "c", "e", "=">>

TxtVelocityEq ==
    <<",", " ", "v", "e", "l", "o", "c", "i", "t", "y", "=">>

TxtNeoEq ==
    <<",", " ", "n", "e", "o", "=">>

-----------------------------------------------------------------------------
(* class NearEarthObject *)

\* the flag compared without upper()
HazardousOfExact(hazardous) == hazardous = <<"Y">>

\* hazardous.upper() == 'Y'
HazardousOf(hazardous) == Upper(hazardous) = <<"Y">>

\* the sentinel for every falsy diameter, the number zero included
DiameterOfFalsy(diameter) ==
    LET r == PyFloat(diameter)
    IN  IF diameter = <<>> THEN Returned(NaN)
        ELSE IF r.ok /\ r.val.k = "fin" /\ r.val.m = 0 THEN Returned(NaN)
        ELSE r

\* the sentinel for every diameter float() rejects
DiameterOfLenient(diameter) ==
    LET r == PyFloat(diameter)
    IN  IF diameter = <<>> \/ ~r.ok THEN Returned(NaN) ELSE r

\* float('nan') for the empty string, float(diameter) otherwise
DiameterOf(diameter) ==
    IF diameter = <<>> THEN Returned(NaN) ELSE PyFloat(diameter)

\* the name kept verbatim, the empty string included
NameOfVerbatim(name) == name

\* None for the empty string, the name otherwise
NameOf(name) == IF name = <<>> THEN None ELSE name

\* one list object shared by every instance
NewApproachesShared(ls) == [heap |-> IF ls = <<>> THEN << <<>> >> ELSE ls, ref |-> 1]

\* self.approaches = []: a list object of its own, allocated in the heap ls
NewApproaches(ls) == [heap |-> Append(ls, <<>>), ref |-> Len(ls) + 1]

\* NearEarthObject.__init__: the instance and the heap of lists after it, or
\* the exception float() raised (and the field it was raised for)
NearEarthObjectInit(designation, hazardous, diameter, name, ls) ==
    LET d == DiameterOf(diameter)
        a == NewApproaches(ls)
    IN  IF ~d.ok THEN [ok |-> FALSE, exc |-> d.exc, field |-> "diameter"]
        ELSE [ok |-> TRUE,
              obj |-> [designation |-> designation,
                       hazardous |-> HazardousOf(hazardous),
                       diameter |-> d.val,
                       name |-> NameOf(name),
                       approaches |-> a.ref],
              heap |-> a.heap]

\* bool(self.name)
HasName(self) == self.name # None /\ self.name # <<>>

\* the designation alone, whatever the name
fullnameBare(self) == self.designation

\* NearEarthObject.fullname
fullname(self) ==
    IF HasName(self)
    THEN self.designation \o <<" ", "(">> \o self.name \o <<")">>
    ELSE self.designation

\* NearEarthObject.__str__
NeoStr(self) ==
    fullname(self) \o TxtHasDiameter \o FloatStr(self.diameter)
    \o (IF self.hazardous THEN TxtHazardous ELSE TxtNotHazardous)

\* NearEarthObject.__repr__
NeoRepr(self) ==
    TxtNeoOpen \o ReprStr(self.designation)
    \o TxtName \o (IF self.name = None THEN ReprNone ELSE ReprStr(self.name))
    \o TxtDiameter \o FloatFixed(self.diameter, 3)
    \o TxtHazardousEq \o ReprBool(self.hazardous) \o <<")">>

-----------------------------------------------------------------------------
(* class CloseApproach *)

\* self._designation = designation
CaDesignationOf(time, distance, velocity, designation) == designation

\* an instance that starts with a NEO reference already set
CloseApproachInitLinked(time, distance, velocity, designation) ==
    LET t == cd_to_datetime(time)
        d == PyFloat(distance)
        v == PyFloat(velocity)
    IN  IF ~t.ok THEN [ok |-> FALSE, exc |-> t.exc, field |-> "time"]
        ELSE IF ~d.ok THEN [ok |-> FALSE, exc |-> d.exc, field |-> "distance"]
        ELSE IF ~v.ok THEN [ok |-> FALSE, exc |-> v.exc, field |-> "velocity"]
        ELSE [ok |-> TRUE,
              obj |-> [_designation |-> designation, time |-> t.val,
                       distance |-> d.val, velocity |-> v.val, neo |-> 1]]

\* CloseApproach.__init__: the instance, or the exception the first failing
\* parser raised (and the field it was raised for)
CloseApproachInit(time, distance, velocity, designation) ==
    LET t == cd_to_datetime(time)
        d == PyFloat(distance)
        v == PyFloat(velocity)
    IN  IF ~t.ok THEN [ok |-> FALSE, exc |-> t.exc, field |-> "time"]
        ELSE IF ~d.ok THEN [ok |-> FALSE, exc |-> d.exc, field |-> "distance"]
        ELSE IF ~v.ok THEN [ok |-> FALSE, exc |-> v.exc, field |-> "velocity"]
        ELSE [ok |-> TRUE,
              obj |-> [_designation |->
                           CaDesignationOf(time, distance, velocity, designation),
                       time |-> t.val,
                       distance |-> d.val,
                       velocity |-> v.val,
                       neo |-> NoNeo]]

\* CloseApproach.time_str
time_str(self) == datetime_to_str(self.time)

\* CloseApproach.__str__
CaStr(self) ==
    TxtOn \o time_str(self) \o <<" ">> \o self._designation
    \o TxtApproaches \o FloatStr(self.distance)
    \o TxtVelocity \o FloatStr(self.velocity) \o TxtKms

\* the raw designation in place of the linked NEO
ReprNeoOfRaw(self, heap) == ReprStr(self._designation)

\* repr(self.neo), with the heap of NearEarthObject instances
ReprNeoOf(self, heap) ==
    IF self.neo = NoNeo THEN ReprNone ELSE NeoRepr(heap[self.neo])

\* CloseApproach.__repr__
CaRepr(self, heap) ==
    TxtCaOpen \o ReprStr(time_str(self))
    \o TxtDistanceEq \o FloatFixed(self.distance, 2)
    \o TxtVelocityEq \o FloatFixed(self.velocity, 2)
    \o TxtNeoEq \o ReprNeoOf(self, heap) \o <<")">>

-----------------------------------------------------------------------------
(* Raw field values of the data set *)

Des433 == <<"4", "3", "3">>
Des2015AB == <<"2", "0", "1", "5", " ", "A", "B">>
NameEros == <<"E", "r", "o", "s">>
DiamZero == <<"0">>
DiamOneFive == <<"1", ".", "5", "0">>
DiamNan == <<"n", "a", "n">>
DiamNanSigned == <<"-", "N", "a", "N">>
DiamBlank == <<" ">>
NotANumber == <<"x">>
Time1900 ==
    <<"1", "9", "0", "0", "-", "J", "a", "n", "-", "0", "1", " ", "0", "0",
      ":", "0", "0">>
Time2020 ==
    <<"2", "0", "2", "0", "-", "d", "e", "c", "-", "3", "1", " ", "2", "3",
      ":", "5", "9">>
TimeBad ==
    <<"2", "0", "2", "0", "-", "1", "3", "-", "0", "1", " ", "0", "0", ":",
      "0", "0">>
Dist0092 == <<"0", ".", "0", "9", "2">>
DistOne == <<"1">>
Vel1367 == <<"1", "3", ".", "6", "7">>

FullEros == <<"4", "3", "3", " ", "(", "E", "r", "o", "s", ")">>

Designations == {Des433, <<>>}
HazardFlags == {<<"Y">>, <<"y">>, <<"N">>, <<>>, <<"y", "e", "s">>}
Diameters ==
    {<<>>, DiamZero, DiamOneFive, DiamNan, DiamNanSigned, DiamBlank, NotANumber}
Names == {<<>>, NameEros}

\* every combination of raw NEO fields
NeoFields == Designations \X HazardFlags \X Diameters \X Names

\* rows of NEO and close-approach data, good and bad
NeoRows ==
    { <<Des433, <<"Y">>, <<>>, NameEros>>,
      <<Des2015AB, <<"N">>, DiamZero, <<>> >>,
      << <<>>, <<"y">>, DiamOneFive, <<>> >>,
      <<Des433, <<"N">>, NotANumber, NameEros>> }

CaRows ==
    { <<Time1900, Dist0092, Vel1367, Des2015AB>>,
      <<Time2020, DistOne, Vel1367, Des433>>,
      <<Time1900, NotANumber, Vel1367, Des433>>,
      <<Time1900, DistOne, NotANumber, Des433>>,
      <<TimeBad, DistOne, Vel1367, Des2015AB>> }

-----------------------------------------------------------------------------
(* NEODatabase.__init__ (database.py): the linking step *)

\* the NEOs an approach's raw designation resolves to
Matches(a) == {n \in 1..Len(neos) : neos[n].designation = cas[a]._designation}

-----------------------------------------------------------------------------
(* The state machine *)

NoCall == [op |-> "none", self |-> 0, args |-> <<>>]

Init ==
    /\ neos = <<>>
    /\ cas = <<>>
    /\ lists = <<>>
    /\ caArgs = <<>>
    /\ call = NoCall
    /\ result = Returned(None)
    /\ badField = "none"

\* NearEarthObject(designation, hazardous, diameter, name)
NewNearEarthObject(args) ==
    LET r == NearEarthObjectInit(args[1], args[2], args[3], args[4], lists)
    IN  /\ call' = [op |-> "NearEarthObject", self |-> 0, args |-> args]
        /\ IF r.ok
           THEN /\ neos' = Append(neos, r.obj)
                /\ lists' = r.heap
                /\ result' = Returned(Len(neos) + 1)
                /\ badField' = "none"
           ELSE /\ result' = [ok |-> FALSE, exc |-> r.exc]
                /\ badField' = r.field
                /\ UNCHANGED <<neos, lists>>
        /\ UNCHANGED <<cas, caArgs>>

\* CloseApproach(time, distance, velocity, designation)
NewCloseApproach(args) ==
    LET r == CloseApproachInit(args[1], args[2], args[3], args[4])
    IN  /\ call' = [op |-> "CloseApproach", self |-> 0, args |-> args]
        /\ IF r.ok
           THEN /\ cas' = Append(cas, r.obj)
                /\ caArgs' = Append(caArgs, args[4])
                /\ result' = Returned(Len(cas) + 1)
                /\ badField' = "none"
           ELSE /\ result' = [ok |-> FALSE, exc |-> r.exc]
                /\ badField' = r.field
                /\ UNCHANGED <<cas, caArgs>>
        /\ UNCHANGED <<neos, lists>>

\* a read of an instance: the value is handed to the caller, nothing is stored
Read(op, self, value) ==
    /\ call' = [op |-> op, self |-> self, args |-> <<>>]
    /\ result' = Returned(value)
    /\ badField' = "none"
    /\ UNCHANGED <<neos, cas, lists, caArgs>>

\* neo.fullname
ReadFullname(n) == Read("fullname", n, fullname(neos[n]))

\* str(neo)
ReadNeoStr(n) == Read("NearEarthObject.__str__", n, NeoStr(neos[n]))

\* repr(neo)
ReadNeoRepr(n) == Read("NearEarthObject.__repr__", n, NeoRepr(neos[n]))

\* approach.time_str
ReadTimeStr(a) == Read("time_str", a, time_str(cas[a]))

\* str(approach)
ReadCaStr(a) == Read("CloseApproach.__str__", a, CaStr(cas[a]))

\* repr(approach)
ReadCaRepr(a) == Read("CloseApproach.__repr__", a, CaRepr(cas[a], neos))

\* the linking step on one approach: its raw designation is resolved to a NEO,
\* approach.neo is set and the approach is appended to neo.approaches
Link(a) ==
    /\ cas[a].neo = NoNeo
    /\ \E n \in Matches(a) :
          /\ cas' = [cas EXCEPT ![a].neo = n]
          /\ lists' = [lists EXCEPT ![neos[n].approaches] = Append(@, a)]
    /\ call' = [op |-> "link", self |-> a, args |-> <<>>]
    /\ result' = Returned(None)
    /\ badField' = "none"
    /\ UNCHANGED <<neos, caArgs>>

Reads ==
    \/ \E n \in 1..Len(neos) : ReadFullname(n) \/ ReadNeoStr(n) \/ ReadNeoRepr(n)
    \/ \E a \in 1..Len(cas) : ReadTimeStr(a) \/ ReadCaStr(a) \/ ReadCaRepr(a)

\* ingestion of the data set's rows, linking, and reads of the entities
Next ==
    \/ Len(neos) < MaxNeos /\ \E args \in NeoRows : NewNearEarthObject(args)
    \/ Len(cas) < MaxCas /\ \E args \in CaRows : NewCloseApproach(args)
    \/ \E a \in 1..Len(cas) : Link(a)
    \/ Reads

Spec == Init /\ [][Next]_vars

\* construction of NEOs from every combination of raw fields, and their reads
NextNeo ==
    \/ Len(neos) < MaxSoloNeos /\ \E args \in NeoFields : NewNearEarthObject(args)
    \/ \E n \in 1..Len(neos) : ReadFullname(n) \/ ReadNeoStr(n) \/ ReadNeoRepr(n)

SpecNeo == Init /\ [][NextNeo]_vars

-----------------------------------------------------------------------------
(* Vocabulary of the claims *)

IsNeoCall == call.op = "NearEarthObject"
IsCaCall == call.op = "CloseApproach"

\* the instance a successful constructor call returned
NewNeo == neos[result.val]

\* the number of times x occurs in the sequence s
Count(s, x) == Cardinality({i \in 1..Len(s) : s[i] = x})

\* w stands in s from position pos on
HasAt(s, pos, w) == Len(s) >= pos + Len(w) - 1 /\ SubSeq(s, pos, pos + Len(w) - 1) = w

EndsWith(s, w) == Len(s) >= Len(w) /\ SubSeq(s, Len(s) - Len(w) + 1, Len(s)) = w

\* the elements of NEO n's approaches
ApproachesOf(n) == lists[neos[n].approaches]

\* a spelling of not-a-number that float() accepts: nan in any case, signed or
\* not, blanks around it
IsNanSpelling(str) ==
    LET t == Strip(str)
        body == IF t # <<>> /\ Head(t) \in {"+", "-"} THEN Tail(t) ELSE t
    IN  Len(body) = 3 /\ body[1] \in {"n", "N"} /\ body[2] \in {"a", "A"}
        /\ body[3] \in {"n", "N"}

\* the raw diameters of the model that float() accepts, by hand
NumericDiameters == {DiamZero, DiamOneFive, DiamNan, DiamNanSigned}

-----------------------------------------------------------------------------
(* C1 *)

\* C1: the stored hazardous value is true exactly when the flag is "Y" or "y",
\* false for every other flag, and no flag makes the construction fail: it
\* succeeds whenever the diameter is empty or numeric.
C1_HazardousIffY ==
    IsNeoCall =>
        /\ (call.args[3] \in NumericDiameters \cup {<<>>}) => result.ok
        /\ result.ok => (NewNeo.hazardous <=> call.args[2] \in {<<"Y">>, <<"y">>})

C1_Witness ==
    IsNeoCall /\ result.ok /\ call.args[2] = <<"y">> /\ NewNeo.hazardous = TRUE

-----------------------------------------------------------------------------
(* C2 *)

\* C2 as stated: the stored diameter is the not-a-number sentinel if and only
\* if the diameter input is the empty string.
C2_SentinelIffEmpty ==
    IsNeoCall /\ result.ok => (IsNaN(NewNeo.diameter) <=> call.args[3] = <<>>)

\* C2, amended: the stored diameter is the sentinel if and only if the input is
\* the empty string or a spelling of not-a-number that float() accepts; the
\* empty string always constructs; "0" stores numeric zero and "1.50" stores
\* 1.5, not the sentinel.
C2_SentinelIffEmptyOrNan ==
    IsNeoCall =>
        /\ call.args[3] = <<>> => result.ok
        /\ result.ok =>
              /\ IsNaN(NewNeo.diameter)
                    <=> (call.args[3] = <<>> \/ IsNanSpelling(call.args[3]))
              /\ call.args[3] = DiamZero =>
                    NewNeo.diameter = [k |-> "fin", neg |-> FALSE, m |-> 0, s |-> 0]
              /\ call.args[3] = DiamOneFive =>
                    NewNeo.diameter = [k |-> "fin", neg |-> FALSE, m |-> 15, s |-> 1]

C2_Witness ==
    IsNeoCall /\ result.ok /\ call.args[3] = DiamNan /\ IsNaN(NewNeo.diameter)

-----------------------------------------------------------------------------
(* C3 *)

\* C3: the stored name is None, never the empty string, when the name input is
\* empty, and is the input itself when the input is not empty.
C3_NameAbsentIffEmpty ==
    IsNeoCall /\ result.ok =>
        /\ NewNeo.name # <<>>
        /\ call.args[4] = <<>> => NewNeo.name = None
        /\ call.args[4] # <<>> => NewNeo.name = call.args[4]

C3_Witness ==
    IsNeoCall /\ result.ok /\ call.args[4] = <<>> /\ NewNeo.name = None

-----------------------------------------------------------------------------
(* C4 *)

\* C4: every read of fullname gives "<designation> (<name>)" from the NEO's
\* current designation and name when the name is present, the designation alone
\* when it is absent, and leaves every object as it was.
C4_Fullname ==
    [][call'.op = "fullname" =>
          /\ result'.ok
          /\ result'.val =
                (IF neos[call'.self].name = None
                 THEN neos[call'.self].designation
                 ELSE neos[call'.self].designation \o <<" ", "(">>
                      \o neos[call'.self].name \o <<")">>)
          /\ UNCHANGED <<neos, cas, lists>>]_vars

C4_Witness ==
    /\ call.op = "fullname" /\ result.val = FullEros
    /\ neos[call.self].designation = Des433 /\ neos[call.self].name = NameEros

-----------------------------------------------------------------------------
(* C5 *)

\* C5: once the linking step has linked an approach, its neo is a NEO whose
\* designation is the raw designation the approach was constructed with, that
\* NEO's approaches holds the approach exactly once, and every approach in any
\* NEO's approaches refers back to that NEO.
C5_LinkConsistent ==
    /\ \A a \in 1..Len(cas) :
          cas[a].neo # NoNeo =>
              /\ cas[a].neo \in 1..Len(neos)
              /\ neos[cas[a].neo].designation = caArgs[a]
              /\ Count(ApproachesOf(cas[a].neo), a) = 1
    /\ \A n \in 1..Len(neos) :
          \A i \in 1..Len(ApproachesOf(n)) : cas[ApproachesOf(n)[i]].neo = n

C5_Witness ==
    /\ Len(neos) = 2
    /\ \E n \in 1..Len(neos) :
          /\ Len(ApproachesOf(n)) = 2
          /\ \A a \in 1..Len(cas) : cas[a].neo = n /\ caArgs[a] = neos[n].designation

-----------------------------------------------------------------------------
(* C6 *)

\* the human-readable sentence names `ident` where it names the NEO
SentenceNames(ident) == HasAt(result.val, Len(TxtOn) + 16 + 2, ident \o TxtApproaches)

\* the machine representation shows `shown` as the approach's NEO
ReprShows(shown) == EndsWith(result.val, TxtNeoEq \o shown \o <<")">>)

\* C6 as stated: an unlinked approach is displayed with its raw designation;
\* once its neo is set, both the sentence and the machine representation show
\* the linked NEO's identity (its full name, its representation) instead.
C6_DisplayPrefersNeo ==
    /\ call.op = "CloseApproach.__str__" =>
          SentenceNames(IF cas[call.self].neo = NoNeo
                        THEN cas[call.self]._designation
                        ELSE fullname(neos[cas[call.self].neo]))
    /\ call.op = "CloseApproach.__repr__" =>
          ReprShows(IF cas[call.self].neo = NoNeo
                    THEN ReprNone
                    ELSE NeoRepr(neos[cas[call.self].neo]))

\* C6, amended: an unlinked approach is displayed with its raw designation
\* (and no NEO in the machine representation); once its neo is set, the
\* machine representation shows the linked NEO's representation, while the
\* sentence keeps naming the raw designation.
C6_ReprPrefersNeo ==
    /\ call.op = "CloseApproach.__str__" =>
          SentenceNames(cas[call.self]._designation)
    /\ call.op = "CloseApproach.__repr__" =>
          ReprShows(IF cas[call.self].neo = NoNeo
                    THEN ReprNone
                    ELSE NeoRepr(neos[cas[call.self].neo]))

C6_Witness ==
    /\ call.op = "CloseApproach.__repr__"
    /\ cas[call.self].neo # NoNeo
    /\ neos[cas[call.self].neo].name = NameEros
    /\ ReprShows(NeoRepr(neos[cas[call.self].neo]))

-----------------------------------------------------------------------------
(* C7 *)

\* C7: every constructed NEO has a non-empty designation, and no step changes
\* the designation of a NEO that exists.
C7_DesignationFixedNonEmpty ==
    [][/\ \A n \in 1..Len(neos') : neos'[n].designation # <<>>
       /\ \A n \in 1..Len(neos) :
             n <= Len(neos') /\ neos'[n].designation = neos[n].designation]_vars

-----------------------------------------------------------------------------
(* C8 *)

\* the parser of the field rejects the raw value
RejectedNumber(str) == ~PyFloat(str).ok
RejectedTime(str) == ~cd_to_datetime(str).ok

\* C8: a constructor call whose diameter is non-empty and not numeric, or
\* whose time, distance or velocity its parser rejects, fails: it returns no
\* instance, and every object that existed is as it was and no object is added.
C8_AllOrNothing ==
    [][\/ /\ call'.op = "NearEarthObject"
          /\ call'.args[3] # <<>> /\ RejectedNumber(call'.args[3])
       \/ /\ call'.op = "CloseApproach"
          /\ \/ RejectedTime(call'.args[1])
             \/ RejectedNumber(call'.args[2])
             \/ RejectedNumber(call'.args[3])
       => /\ ~result'.ok
          /\ UNCHANGED <<neos, cas, lists, caArgs>>]_vars

C8_Witness ==
    /\ IsNeoCall /\ call.args[3] = NotANumber /\ ~result.ok
    /\ Len(neos) = 1 /\ Len(cas) = 1 /\ cas[1].neo = 1

-----------------------------------------------------------------------------
(* C9 *)

\* C9: from the failure alone the caller can tell which field was bad: two
\* failures of the same constructor that surface the same error are failures
\* of the same field.
C9_ErrorTellsField ==
    [][~result.ok /\ ~result'.ok /\ call.op = call'.op /\ result.exc = result'.exc
          => badField' = badField]_vars

-----------------------------------------------------------------------------
(* C10 *)

\* C10: a new NEO has an empty approaches list that no other NEO shares, a new
\* approach has no neo, and no step but the linking step changes any NEO's
\* approaches or any approach's neo; the linking step changes the approaches
\* of the one NEO it links to and of no other.
C10_UnlinkedUntilLinked ==
    [][/\ Len(neos') > Len(neos) =>
             /\ lists'[neos'[Len(neos')].approaches] = <<>>
             /\ \A n \in 1..Len(neos) :
                   neos'[n].approaches # neos'[Len(neos')].approaches
       /\ Len(cas') > Len(cas) => cas'[Len(cas')].neo = NoNeo
       /\ call'.op # "link" =>
             /\ \A n \in 1..Len(neos) :
                   lists'[neos'[n].approaches] = lists[neos[n].approaches]
             /\ \A a \in 1..Len(cas) : cas'[a].neo = cas[a].neo
       /\ call'.op = "link" =>
             \A n \in 1..Len(neos) :
                 n # cas'[call'.self].neo =>
                     lists'[neos'[n].approaches] = lists[neos[n].approaches]]_vars

C10_Witness ==
    /\ call.op = "CloseApproach.__repr__"
    /\ Len(neos) = 2 /\ Len(cas) = 2
    /\ cas[1].neo # NoNeo /\ cas[2].neo = NoNeo
    /\ \E n \in 1..2 : ApproachesOf(n) = <<1>> /\ ApproachesOf(3 - n) = <<>>

====
